---- MODULE Spec2Model ----
(***************************************************************************)
(* A model of niml-go: the line-oriented NIML parser (parseFile) and the   *)
(* reflective record filler (fillStruct, setFieldValue, parseToInt).       *)
(*                                                                         *)
(* Go strings are modelled as sequences of one-character strings, so that  *)
(* strings.TrimSpace, HasPrefix, Index, Trim and SplitN are computed       *)
(* character by character as the library computes them.                    *)
(***************************************************************************)
EXTENDS Integers, Sequences, FiniteSets, TLC

VARIABLES lines, result, currentTopic, pc, err,
          fields, configMap, vals, idx, ferr, fpc

vars == <<lines, result, currentTopic, pc, err,
          fields, configMap, vals, idx, ferr, fpc>>

parseVars == <<lines, result, currentTopic, pc, err>>
fillVars == <<fields, configMap, vals, idx, ferr, fpc>>

----------------------------------------------------------------------------
(* Bounds *)

\* number of lines of a text
MaxLines == 4
\* every line of at most this many characters is an input of the one-line specification
MaxShort == 3
\* number of lines of the text consumed before the line under study
MaxPrefix == 2
\* number of fields of a target record
MaxFields == 2

----------------------------------------------------------------------------
(* strings *)

EmptyStr == <<>>

\* the white space strings.TrimSpace removes (the part of it the inputs use)
Space == {" ", "\t"}

RECURSIVE TrimLeft(_, _)
TrimLeft(s, cutset) ==
  IF s # <<>> /\ Head(s) \in cutset THEN TrimLeft(Tail(s), cutset) ELSE s

RECURSIVE TrimRight(_, _)
TrimRight(s, cutset) ==
  IF s # <<>> /\ s[Len(s)] \in cutset
  THEN TrimRight(SubSeq(s, 1, Len(s) - 1), cutset) ELSE s

\* strings.Trim(s, cutset)
Trim(s, cutset) == TrimRight(TrimLeft(s, cutset), cutset)

\* strings.TrimSpace(s)
TrimSpace(s) == Trim(s, Space)

\* strings.HasPrefix(s, p)
HasPrefix(s, p) == Len(s) >= Len(p) /\ SubSeq(s, 1, Len(p)) = p

\* strings.HasSuffix(s, p)
HasSuffix(s, p) ==
  Len(s) >= Len(p) /\ SubSeq(s, Len(s) - Len(p) + 1, Len(s)) = p

\* strings.TrimPrefix(s, p)
TrimPrefix(s, p) == IF HasPrefix(s, p) THEN SubSeq(s, Len(p) + 1, Len(s)) ELSE s

\* strings.Index(s, sub), 0-based, -1 when sub does not occur in s
Index(s, sub) ==
  LET hits == {i \in 1..(Len(s) - Len(sub) + 1) : SubSeq(s, i, i + Len(sub) - 1) = sub}
  IN IF hits = {} THEN -1
     ELSE (CHOOSE i \in hits : \A j \in hits : i <= j) - 1

\* strings.SplitN(s, sep, 2) for a one-character separator
SplitN2(s, sep) ==
  LET i == Index(s, <<sep>>)
  IN IF i = -1 THEN <<s>>
     ELSE <<SubSeq(s, 1, i), SubSeq(s, i + 2, Len(s))>>

----------------------------------------------------------------------------
(* parseFile *)

CommentMarker == <<";", ";">>

\* the two shapes of a document value: a string or a map[string]interface{}
Scalar(s) == [kind |-> "scalar", str |-> s, map |-> <<>>]
Section(m) == [kind |-> "section", str |-> <<>>, map |-> m]

\* m[k] = v on a Go map
MapSet(m, k, v) == (k :> v) @@ m

\* the state parseFile starts its loop in
ParseStart == [result |-> <<>>, currentTopic |-> EmptyStr]

\* a `(topic)` line
ParseTopic(st, line) ==
  LET topic == Trim(line, {"(", ")"})
  IN [result |-> IF topic \in DOMAIN st.result THEN st.result
                 ELSE MapSet(st.result, topic, Section(<<>>)),
      currentTopic |-> topic]

\* ParseDecl storing a declaration that has no `=` with an empty value
ParseDecl_StoresWithoutEquals(st, line) ==
  LET rest == TrimSpace(TrimPrefix(line, <<"/">>))
      parts == SplitN2(rest, "=")
      key == TrimSpace(parts[1])
      value == IF Len(parts) = 2 THEN Trim(TrimSpace(parts[2]), {"\""}) ELSE EmptyStr
  IN IF st.currentTopic # EmptyStr
     THEN IF /\ st.currentTopic \in DOMAIN st.result
             /\ st.result[st.currentTopic].kind = "section"
          THEN [st EXCEPT !.result =
                  MapSet(st.result, st.currentTopic,
                         Section(MapSet(st.result[st.currentTopic].map,
                                        key, Scalar(value))))]
          ELSE st
     ELSE [st EXCEPT !.result = MapSet(st.result, key, Scalar(value))]

\* a `/ key = value` line
ParseDecl(st, line) ==
  LET rest == TrimSpace(TrimPrefix(line, <<"/">>))
      parts == SplitN2(rest, "=")
  IN IF Len(parts) # 2 THEN st
     ELSE LET key == TrimSpace(parts[1])
              value == Trim(TrimSpace(parts[2]), {"\""})
          IN IF st.currentTopic # EmptyStr
             THEN IF /\ st.currentTopic \in DOMAIN st.result
                     /\ st.result[st.currentTopic].kind = "section"
                  THEN [st EXCEPT !.result =
                          MapSet(st.result, st.currentTopic,
                                 Section(MapSet(st.result[st.currentTopic].map,
                                                key, Scalar(value))))]
                  ELSE st
             ELSE [st EXCEPT !.result = MapSet(st.result, key, Scalar(value))]

\* StripComment with the inline comment left in the line
StripComment_KeepsInline(raw) == TrimSpace(raw)

\* the text of a line once the white space and the inline comment are removed
StripComment(raw) ==
  LET line == TrimSpace(raw)
      i == Index(line, CommentMarker)
  IN IF i # -1 THEN TrimSpace(SubSeq(line, 1, i)) ELSE line

\* one iteration of the loop over the lines
ParseLine(st, raw) ==
  LET line == StripComment(raw)
  IN IF HasPrefix(TrimSpace(raw), CommentMarker) THEN st
     ELSE IF line = EmptyStr THEN st
     ELSE IF HasPrefix(line, <<"(">>) /\ HasSuffix(line, <<")">>)
          THEN ParseTopic(st, line)
     ELSE IF HasPrefix(line, <<"/">>) THEN ParseDecl(st, line)
     ELSE st

\* the whole loop over a text
RECURSIVE ParseLines(_, _)
ParseLines(st, text) ==
  IF text = <<>> THEN st ELSE ParseLines(ParseLine(st, Head(text)), Tail(text))

parseFile(text) == ParseLines(ParseStart, text).result

----------------------------------------------------------------------------
(* strconv *)

Digits == {"0", "1", "2", "3", "4", "5", "6", "7", "8", "9"}

DigitVal(c) ==
  CASE c = "0" -> 0 [] c = "1" -> 1 [] c = "2" -> 2 [] c = "3" -> 3
    [] c = "4" -> 4 [] c = "5" -> 5 [] c = "6" -> 6 [] c = "7" -> 7
    [] c = "8" -> 8 [] c = "9" -> 9

AllDigits(s) == \A i \in 1..Len(s) : s[i] \in Digits

RECURSIVE DecVal(_)
DecVal(s) ==
  IF s = <<>> THEN 0
  ELSE 10 * DecVal(SubSeq(s, 1, Len(s) - 1)) + DigitVal(s[Len(s)])

RECURSIVE Pow10(_)
Pow10(n) == IF n = 0 THEN 1 ELSE 10 * Pow10(n - 1)

\* strconv.ParseInt(s, 10, 64); the inputs are too short to leave the int64 range
ParseInt(s) ==
  LET neg == s # <<>> /\ Head(s) = "-"
      body == IF s # <<>> /\ Head(s) \in {"+", "-"} THEN Tail(s) ELSE s
  IN IF body = <<>> \/ ~AllDigits(body) THEN [ok |-> FALSE, val |-> 0]
     ELSE [ok |-> TRUE, val |-> IF neg THEN 0 - DecVal(body) ELSE DecVal(body)]

\* a float64 as mant / 10^scale, with no trailing zero in the fraction
RECURSIVE NormFloat(_, _)
NormFloat(mant, scale) ==
  IF scale > 0 /\ mant % 10 = 0 THEN NormFloat(mant \div 10, scale - 1)
  ELSE [mant |-> mant, scale |-> scale]

\* strconv.ParseFloat(s, 64) on the decimal notation (sign, digits, one point);
\* the inputs hold no exponent, no hexadecimal notation, no inf and no nan
ParseFloat(s) ==
  LET neg == s # <<>> /\ Head(s) = "-"
      body == IF s # <<>> /\ Head(s) \in {"+", "-"} THEN Tail(s) ELSE s
      dot == Index(body, <<".">>)
      int == IF dot = -1 THEN body ELSE SubSeq(body, 1, dot)
      frac == IF dot = -1 THEN <<>> ELSE SubSeq(body, dot + 2, Len(body))
      mag == DecVal(int) * Pow10(Len(frac)) + DecVal(frac)
  IN IF ~AllDigits(int) \/ ~AllDigits(frac) \/ (int = <<>> /\ frac = <<>>)
     THEN [ok |-> FALSE, val |-> NormFloat(0, 0)]
     ELSE [ok |-> TRUE,
           val |-> NormFloat(IF neg THEN 0 - mag ELSE mag, Len(frac))]

BoolTrue == {<<"1">>, <<"t">>, <<"T">>, <<"T", "R", "U", "E">>,
             <<"t", "r", "u", "e">>, <<"T", "r", "u", "e">>}
BoolFalse == {<<"0">>, <<"f">>, <<"F">>, <<"F", "A", "L", "S", "E">>,
              <<"f", "a", "l", "s", "e">>, <<"F", "a", "l", "s", "e">>}

\* strconv.ParseBool(s)
ParseBool(s) ==
  IF s \in BoolTrue THEN [ok |-> TRUE, val |-> TRUE]
  ELSE IF s \in BoolFalse THEN [ok |-> TRUE, val |-> FALSE]
  ELSE [ok |-> FALSE, val |-> FALSE]

----------------------------------------------------------------------------
(* coercion helpers; a map value is a Scalar (Go string) or a Section *)

parseToInt(value) ==
  IF value.kind = "scalar" THEN ParseInt(TrimSpace(value.str))
  ELSE [ok |-> FALSE, val |-> 0]

parseToFloat(value) ==
  IF value.kind = "scalar" THEN ParseFloat(TrimSpace(value.str))
  ELSE [ok |-> FALSE, val |-> NormFloat(0, 0)]

parseToBool(value) ==
  IF value.kind = "scalar" THEN ParseBool(TrimSpace(value.str))
  ELSE [ok |-> FALSE, val |-> FALSE]

----------------------------------------------------------------------------
(* fillStruct *)

\* a struct field: its name, its `niml` tag, its kind and, for a struct kind,
\* the fields of the nested struct type
Field(name, tag, kind, nested) ==
  [name |-> name, tag |-> tag, kind |-> kind, nested |-> nested]

IntKinds == {"int8", "int64"}
UintKinds == {"uint8"}

Two8 == 256
Two7 == 128

\* reflect.Value.SetInt(x): the int64 is converted to the field's own width
SetInt(kind, x) ==
  IF kind = "int8" THEN ((x + Two7) % Two8) - Two7 ELSE x

\* reflect.Value.SetUint(uint64(x)): converted to the field's own width
SetUint(kind, x) == x % Two8

UpperCase == {"A", "B", "C", "D", "E"}

\* reflect.Value.CanSet(): the field of an addressable struct is exported
CanSet(field) == field.name # <<>> /\ Head(field.name) \in UpperCase

\* getFieldKey that never reads the tag
getFieldKey_IgnoresTag(field) == field.name

getFieldKey(field) == IF field.tag # EmptyStr THEN field.tag ELSE field.name

NoError == [failed |-> FALSE, path |-> <<>>]

\* fmt.Errorf("failed to set field %s: %w", field.Name, err)
WrapError(name, e) == [failed |-> TRUE, path |-> <<name>> \o e.path]

\* fillStruct and setFieldValue call each other
RECURSIVE FillFrom(_, _, _, _)
RECURSIVE FillField(_, _, _, _)
RECURSIVE setFieldValue(_, _, _)
RECURSIVE setFieldValue_DefaultsOnFailure(_, _, _)

\* setFieldValue leaving the zero value in a scalar field it cannot convert
setFieldValue_DefaultsOnFailure(field, cur, mapValue) ==
  CASE field.kind = "string" ->
         [val |-> IF mapValue.kind = "scalar" THEN mapValue.str ELSE cur,
          err |-> NoError]
    [] field.kind \in IntKinds ->
         LET r == parseToInt(mapValue)
         IN [val |-> SetInt(field.kind, r.val),
             err |-> IF r.ok THEN NoError ELSE [failed |-> TRUE, path |-> <<>>]]
    [] field.kind \in UintKinds ->
         LET r == parseToInt(mapValue)
         IN [val |-> SetUint(field.kind, r.val),
             err |-> IF r.ok THEN NoError ELSE [failed |-> TRUE, path |-> <<>>]]
    [] field.kind = "float64" ->
         LET r == parseToFloat(mapValue)
         IN [val |-> r.val,
             err |-> IF r.ok THEN NoError ELSE [failed |-> TRUE, path |-> <<>>]]
    [] field.kind = "bool" ->
         LET r == parseToBool(mapValue)
         IN [val |-> r.val,
             err |-> IF r.ok THEN NoError ELSE [failed |-> TRUE, path |-> <<>>]]
    [] field.kind = "struct" ->
         IF mapValue.kind = "section"
         THEN LET r == FillFrom(field.nested, mapValue.map, cur, 1)
              IN [val |-> r.vals, err |-> r.err]
         ELSE [val |-> cur, err |-> NoError]
    [] OTHER -> [val |-> cur, err |-> NoError]

\* the value of the field after setFieldValue, and the error returned
setFieldValue(field, cur, mapValue) ==
  CASE field.kind = "string" ->
         [val |-> IF mapValue.kind = "scalar" THEN mapValue.str ELSE cur,
          err |-> NoError]
    [] field.kind \in IntKinds ->
         LET r == parseToInt(mapValue)
         IN IF ~r.ok THEN [val |-> cur, err |-> [failed |-> TRUE, path |-> <<>>]]
            ELSE [val |-> SetInt(field.kind, r.val), err |-> NoError]
    [] field.kind \in UintKinds ->
         LET r == parseToInt(mapValue)
         IN IF ~r.ok THEN [val |-> cur, err |-> [failed |-> TRUE, path |-> <<>>]]
            ELSE [val |-> SetUint(field.kind, r.val), err |-> NoError]
    [] field.kind = "float64" ->
         LET r == parseToFloat(mapValue)
         IN IF ~r.ok THEN [val |-> cur, err |-> [failed |-> TRUE, path |-> <<>>]]
            ELSE [val |-> r.val, err |-> NoError]
    [] field.kind = "bool" ->
         LET r == parseToBool(mapValue)
         IN IF ~r.ok THEN [val |-> cur, err |-> [failed |-> TRUE, path |-> <<>>]]
            ELSE [val |-> r.val, err |-> NoError]
    [] field.kind = "struct" ->
         IF mapValue.kind = "section"
         THEN LET r == FillFrom(field.nested, mapValue.map, cur, 1)
              IN [val |-> r.vals, err |-> r.err]
         ELSE [val |-> cur, err |-> NoError]
    [] OTHER -> [val |-> cur, err |-> NoError]

\* one iteration of fillStruct's loop, on field i
FillField(flds, m, vs, i) ==
  LET field == flds[i]
      key == getFieldKey(field)
  IN IF ~CanSet(field) THEN [vals |-> vs, err |-> NoError]
     ELSE IF key \notin DOMAIN m THEN [vals |-> vs, err |-> NoError]
     ELSE LET r == setFieldValue(field, vs[i], m[key])
          IN [vals |-> [vs EXCEPT ![i] = r.val],
              err |-> IF r.err.failed THEN WrapError(field.name, r.err)
                      ELSE NoError]

\* fillStruct's loop from field i on
FillFrom(flds, m, vs, i) ==
  IF i > Len(flds) THEN [vals |-> vs, err |-> NoError]
  ELSE LET r == FillField(flds, m, vs, i)
       IN IF r.err.failed THEN r ELSE FillFrom(flds, m, r.vals, i + 1)

fillStruct(m, flds, vs) == FillFrom(flds, m, vs, 1)

----------------------------------------------------------------------------
(* the texts *)

\* the lines a text is made of
TextLines ==
  { <<"(", "a", ")">>,
    <<"(", "b", ")">>,
    <<"(", ")">>,
    <<"(", "(", "a", ")", ")">>,
    <<"/", "a", "=", "x">>,
    <<"/", " ", "a", " ", "=", " ", "\"", "y", "\"">>,
    <<"/", "b", "=", "x">>,
    <<"/", " ", "b", " ", "=", " ", "\"", "y", "\"">>,
    <<"/", "a", "=", "y", " ", ";", ";", "(", "b", ")">>,
    <<";", ";", " ", "(", "b", ")">>,
    <<"/", "a">>,
    <<"a", "=", "x">>,
    <<>> }

\* the lines of the text consumed before the line under study
PrefixLines == { <<"(", "a", ")">>, <<"(", ")">>, <<"/", "a", "=", "x">> }

SeqsUpTo(S, n) == UNION {[1..k -> S] : k \in 0..n}

PrefixTexts == SeqsUpTo(PrefixLines, MaxPrefix)

Alphabet == {" ", ";", "(", ")", "/", "=", "\"", "a"}

\* lines assembled from the parts of the format
Assembled ==
  { lead \o head \o key \o eq \o value \o tail :
      lead \in {<<>>, <<"\t">>},
      head \in {<<>>, <<"/">>, <<"/", " ">>, <<"(">>, <<";", ";">>},
      key \in {<<>>, <<"a">>, <<"b", " ">>},
      eq \in {<<>>, <<"=">>, <<")">>},
      value \in {<<>>, <<"a">>, <<"\"", "a", "\"">>,
                 <<" ", "\"", "a", "\"", "b", "\"", " ">>,
                 <<"a", ";", "b">>, <<"a", "=", "b">>},
      tail \in {<<>>, <<";", ";">>, <<" ", ";", ";", " ", "a">>,
                <<";", ";", "/", "b", "=", "a">>, <<")">>} }

\* the lines of the one-line specification
Lines == SeqsUpTo(Alphabet, MaxShort) \cup Assembled

----------------------------------------------------------------------------
(* parseFile as a state machine: one step per line of the text *)

FillIdle ==
  /\ fields = <<>>
  /\ configMap = <<>>
  /\ vals = <<>>
  /\ idx = 0
  /\ ferr = NoError
  /\ fpc = "idle"

Init ==
  /\ lines = <<>>
  /\ result = ParseStart.result
  /\ currentTopic = ParseStart.currentTopic
  /\ pc = "loop"
  /\ err = "unset"
  /\ FillIdle

\* the loop body on the next line of the text
ReadFrom(S) ==
  /\ pc = "loop"
  /\ \E raw \in S :
       LET st == ParseLine([result |-> result, currentTopic |-> currentTopic], raw)
       IN /\ lines' = Append(lines, raw)
          /\ result' = st.result
          /\ currentTopic' = st.currentTopic
  /\ UNCHANGED <<pc, err>>
  /\ UNCHANGED fillVars

ReadLine ==
  /\ Len(lines) < MaxLines
  /\ ReadFrom(TextLines)

\* return result, nil
Return ==
  /\ pc = "loop"
  /\ pc' = "done"
  /\ err' = "nil"
  /\ UNCHANGED <<lines, result, currentTopic>>
  /\ UNCHANGED fillVars

Next == ReadLine \/ Return

Spec == Init /\ [][Next]_vars

(* the loop body on one line of any shape, after a short text *)

InitLine ==
  /\ lines \in PrefixTexts
  /\ result = ParseLines(ParseStart, lines).result
  /\ currentTopic = ParseLines(ParseStart, lines).currentTopic
  /\ pc = "loop"
  /\ err = "unset"
  /\ FillIdle

ReadAnyLine ==
  /\ Len(lines) <= MaxPrefix
  /\ lines \in PrefixTexts
  /\ ReadFrom(Lines)

NextLine == ReadAnyLine \/ Return

SpecLine == InitLine /\ [][NextLine]_vars

----------------------------------------------------------------------------
(* the target records and the mappings *)

Kinds == {"string", "int8", "int64", "uint8", "float64", "bool", "struct"}

FieldNames == {<<"A">>, <<"B">>, <<"c">>}

Tags == {EmptyStr, <<"k">>}

\* the struct type of every nested field
NestedType ==
  << Field(<<"B">>, <<"k">>, "string", <<>>),
     Field(<<"A">>, EmptyStr, "int8", <<>>) >>

FieldChoices ==
  { Field(n, t, k, IF k = "struct" THEN NestedType ELSE <<>>) :
      n \in FieldNames, t \in Tags, k \in Kinds }

\* the struct types: the names of the fields of a struct are distinct
RecordTypes ==
  { fs \in SeqsUpTo(FieldChoices, MaxFields) :
      /\ fs # <<>>
      /\ \A i, j \in 1..Len(fs) : i # j => fs[i].name # fs[j].name }

Str1 == <<"1">>
Str300 == <<"3", "0", "0">>
StrNeg1 == <<"-", "1">>
StrX == <<"x">>

SectionOk == Section(<<"k">> :> Scalar(StrX))
SectionBad == Section(<<"A">> :> Scalar(StrX) @@ <<"k">> :> Scalar(Str1))

MapValues ==
  {Scalar(Str1), Scalar(Str300), Scalar(StrNeg1), Scalar(StrX),
   SectionOk, SectionBad}

MapKeys == {<<"A">>, <<"k">>}

ConfigMaps == UNION {[ks -> MapValues] : ks \in SUBSET MapKeys}

\* the value a field holds when fillStruct is called
RECURSIVE PriorValue(_)
PriorValue(field) ==
  CASE field.kind = "string" -> <<"o">>
    [] field.kind \in IntKinds \cup UintKinds -> 5
    [] field.kind = "float64" -> NormFloat(5, 1)
    [] field.kind = "bool" -> FALSE
    [] field.kind = "struct" ->
         [i \in 1..Len(field.nested) |-> PriorValue(field.nested[i])]

PriorValues(flds) == [i \in 1..Len(flds) |-> PriorValue(flds[i])]

----------------------------------------------------------------------------
(* fillStruct as a state machine: one step per field of the target *)

InitFill ==
  /\ lines = <<>>
  /\ result = <<>>
  /\ currentTopic = EmptyStr
  /\ pc = "idle"
  /\ err = "unset"
  /\ fields \in RecordTypes
  /\ configMap \in ConfigMaps
  /\ vals = PriorValues(fields)
  /\ idx = 1
  /\ ferr = NoError
  /\ fpc = "loop"

\* FillStep that leaves the loop on a missing key instead of going on
FillStep_BreaksOnMissingKey ==
  /\ fpc = "loop"
  /\ idx <= Len(fields)
  /\ LET r == FillField(fields, configMap, vals, idx)
         missing == CanSet(fields[idx]) /\ getFieldKey(fields[idx]) \notin DOMAIN configMap
     IN /\ vals' = r.vals
        /\ ferr' = r.err
        /\ fpc' = IF r.err.failed \/ missing THEN "done" ELSE "loop"
        /\ idx' = IF r.err.failed \/ missing THEN idx ELSE idx + 1
  /\ UNCHANGED <<fields, configMap>>
  /\ UNCHANGED parseVars

\* the loop body on field idx
FillStep ==
  /\ fpc = "loop"
  /\ idx <= Len(fields)
  /\ LET r == FillField(fields, configMap, vals, idx)
     IN /\ vals' = r.vals
        /\ ferr' = r.err
        /\ fpc' = IF r.err.failed THEN "done" ELSE "loop"
        /\ idx' = IF r.err.failed THEN idx ELSE idx + 1
  /\ UNCHANGED <<fields, configMap>>
  /\ UNCHANGED parseVars

\* return nil
FillReturn ==
  /\ fpc = "loop"
  /\ idx > Len(fields)
  /\ fpc' = "done"
  /\ UNCHANGED <<fields, configMap, vals, idx, ferr>>
  /\ UNCHANGED parseVars

NextFill == FillStep \/ FillReturn

SpecFill == InitFill /\ [][NextFill]_vars

----------------------------------------------------------------------------
(* the NIML format, line by line, as section 6 of the specification gives it *)

Last(s) == s[Len(s)]
Front(s) == SubSeq(s, 1, Len(s) - 1)

\* a `;; comment` line
IsCommentLine(raw) == HasPrefix(TrimSpace(raw), CommentMarker)

\* a line with a comment after its content
HasInlineComment(raw) ==
  ~IsCommentLine(raw) /\ Index(raw, CommentMarker) # -1

\* the content of a line: the text before the first `;;`
Content(raw) ==
  LET i == Index(raw, CommentMarker)
  IN TrimSpace(IF i = -1 THEN raw ELSE SubSeq(raw, 1, i))

\* a `(topic)` line
IsHeaderLine(raw) ==
  /\ ~IsCommentLine(raw)
  /\ Content(raw) # <<>>
  /\ Head(Content(raw)) = "("
  /\ Last(Content(raw)) = ")"

HeaderTopic(raw) == Trim(Content(raw), {"(", ")"})

\* a `/ key = value` line
IsDeclLine(raw) ==
  /\ ~IsCommentLine(raw)
  /\ ~IsHeaderLine(raw)
  /\ Content(raw) # <<>>
  /\ Head(Content(raw)) = "/"
  /\ \E i \in 1..Len(Content(raw)) : Content(raw)[i] = "="

EqualsAt(raw) ==
  CHOOSE i \in 1..Len(Content(raw)) :
    /\ Content(raw)[i] = "="
    /\ \A j \in 1..(i - 1) : Content(raw)[j] # "="

DeclKey(raw) == TrimSpace(SubSeq(Content(raw), 2, EqualsAt(raw) - 1))

RawValue(raw) ==
  TrimSpace(SubSeq(Content(raw), EqualsAt(raw) + 1, Len(Content(raw))))

DeclValue(raw) == Trim(RawValue(raw), {"\""})

\* a `/ key = "value"` line
IsQuotedDecl(raw) ==
  /\ IsDeclLine(raw)
  /\ Len(RawValue(raw)) >= 2
  /\ Head(RawValue(raw)) = "\""
  /\ Last(RawValue(raw)) = "\""

\* a line that is neither blank, a comment, a header nor a declaration
IsMalformed(raw) ==
  /\ ~IsCommentLine(raw)
  /\ Content(raw) # <<>>
  /\ ~IsHeaderLine(raw)
  /\ ~IsDeclLine(raw)

IsSection(doc, t) == t \in DOMAIN doc /\ doc[t].kind = "section"

Headers(text) == {i \in 1..Len(text) : IsHeaderLine(text[i])}

\* the last header line before line i of the text (0 when there is none)
HeaderBefore(text, i) ==
  LET hs == {h \in Headers(text) : h < i}
  IN IF hs = {} THEN 0 ELSE CHOOSE h \in hs : \A g \in hs : g <= h

----------------------------------------------------------------------------
(* C1 *)

\* C1: the returned document holds a section under key t if and only if a
\* topic header line for t appeared in the text.
C1_SectionIffHeader ==
  pc = "done" =>
    \A t \in DOMAIN result \cup {HeaderTopic(lines[i]) : i \in Headers(lines)} :
      IsSection(result, t) <=> \E i \in Headers(lines) : HeaderTopic(lines[i]) = t

(* C2 *)

\* line j of the text declares a key under header line i, and no later line
\* declares that key again under a header of the same topic
DeclaredUnder(text, i, j) ==
  /\ i \in Headers(text)
  /\ j \in 1..Len(text)
  /\ IsDeclLine(text[j])
  /\ HeaderBefore(text, j) = i
  /\ \A j2 \in (j + 1)..Len(text) :
       ~ /\ IsDeclLine(text[j2])
         /\ DeclKey(text[j2]) = DeclKey(text[j])
         /\ HeaderBefore(text, j2) # 0
         /\ HeaderTopic(text[HeaderBefore(text, j2)]) = HeaderTopic(text[i])

\* C2: a declaration `/ k = v` that follows a header `(t)` is in section t of
\* the finished document, also when `(t)` appears again later in the text.
C2_SectionHoldsDeclarations ==
  pc = "done" =>
    \A i, j \in 1..Len(lines) :
      DeclaredUnder(lines, i, j) =>
        LET t == HeaderTopic(lines[i])
        IN /\ IsSection(result, t)
           /\ DeclKey(lines[j]) \in DOMAIN result[t].map
           /\ result[t].map[DeclKey(lines[j])] = Scalar(DeclValue(lines[j]))

(* C5 *)

\* line i is the last declaration of its key before the first header
LastTopLevelDecl(text, i) ==
  /\ IsQuotedDecl(text[i])
  /\ HeaderBefore(text, i) = 0
  /\ \A j \in (i + 1)..Len(text) :
       ~ /\ IsDeclLine(text[j])
         /\ HeaderBefore(text, j) = 0
         /\ DeclKey(text[j]) = DeclKey(text[i])

\* C5: a declaration `/ k = "v"` before any topic header is in the returned
\* document at top level as k -> v, the last such declaration winning,
\* whatever lines follow.
C5_TopLevelDeclarationKept ==
  pc = "done" =>
    \A i \in 1..Len(lines) :
      LastTopLevelDecl(lines, i) =>
        /\ DeclKey(lines[i]) \in DOMAIN result
        /\ result[DeclKey(lines[i])] = Scalar(DeclValue(lines[i]))

(* C9 *)

\* C9: once a header has been processed, a later declaration `/ k = v` is
\* stored in the section of the most recent header and nowhere else: the
\* top-level entries other than that section are as they were.
C9_DeclarationGoesToCurrentSection ==
  [][ ( /\ lines' # lines
        /\ IsDeclLine(Last(lines'))
        /\ HeaderBefore(lines', Len(lines')) # 0 )
      => LET t == HeaderTopic(lines'[HeaderBefore(lines', Len(lines'))])
             k == DeclKey(Last(lines'))
         IN /\ DOMAIN result' = DOMAIN result
            /\ \A key \in DOMAIN result : key # t => result'[key] = result[key]
            /\ IsSection(result', t)
            /\ k \in DOMAIN result'[t].map
            /\ result'[t].map[k] = Scalar(DeclValue(Last(lines'))) ]_vars

(* C6 *)

\* the state of the loop before the last line consumed
BeforeLast == ParseLines(ParseStart, Front(lines))

WithoutMalformed(text) == SelectSeq(text, LAMBDA l : ~IsMalformed(l))

\* C8: parseFile returns a nil error, and the document and the current topic
\* are those of the text with the `/ k` lines that have no `=` and the lines
\* of no known shape removed.
C8_MalformedLinesIgnored ==
  LET st == ParseLines(ParseStart, WithoutMalformed(lines))
  IN /\ pc = "done" => err = "nil"
     /\ result = st.result
     /\ currentTopic = st.currentTopic

C8_Witness ==
  /\ pc = "done"
  /\ err = "nil"
  /\ Len(lines) >= 2
  /\ IsMalformed(Last(lines))
  /\ Head(Content(Last(lines))) = "/"
  /\ Len(Content(Last(lines))) >= 2
  /\ result # <<>>

----------------------------------------------------------------------------
(* the fill contract, as section 4.2 of the specification gives it *)

\* the lookup key of a field: the `niml` tag if non-empty, else the field name
LookupKey(field) == IF field.tag = EmptyStr THEN field.name ELSE field.tag

Present(field, m) == CanSet(field) /\ LookupKey(field) \in DOMAIN m

\* the present value of the field cannot be coerced to the field's type
RECURSIVE Fails(_, _)
Fails(field, m) ==
  /\ Present(field, m)
  /\ LET v == m[LookupKey(field)]
     IN CASE field.kind \in IntKinds \cup UintKinds ->
               v.kind # "scalar" \/ ~ParseInt(TrimSpace(v.str)).ok
          [] field.kind = "float64" ->
               v.kind # "scalar" \/ ~ParseFloat(TrimSpace(v.str)).ok
          [] field.kind = "bool" ->
               v.kind # "scalar" \/ TrimSpace(v.str) \notin BoolTrue \cup BoolFalse
          [] field.kind = "struct" ->
               /\ v.kind = "section"
               /\ \E j \in 1..Len(field.nested) : Fails(field.nested[j], v.map)
          [] OTHER -> FALSE

\* the first field of the type that fails (one past the last when none does)
FirstFailing(flds, m) ==
  LET fs == {i \in 1..Len(flds) : Fails(flds[i], m)}
  IN IF fs = {} THEN Len(flds) + 1 ELSE CHOOSE i \in fs : \A j \in fs : i <= j

\* the fill writes the field: its key is present with a value of a shape the
\* field's kind accepts
Written(field, m) ==
  /\ Present(field, m)
  /\ ~Fails(field, m)
  /\ field.kind = "string" => m[LookupKey(field)].kind = "scalar"
  /\ field.kind = "struct" => m[LookupKey(field)].kind = "section"

(* C3 *)

\* C3: an integer field processed without an error holds exactly the integer
\* its string value denotes.
C3_NoSilentTruncation ==
  \A i \in 1..Len(fields) :
    ( /\ i < idx
      /\ Present(fields[i], configMap)
      /\ fields[i].kind \in IntKinds \cup UintKinds
      /\ configMap[LookupKey(fields[i])].kind = "scalar" )
    => LET r == ParseInt(TrimSpace(configMap[LookupKey(fields[i])].str))
       IN r.ok /\ vals[i] = r.val

(* C4 *)

\* C4: the step that ends the fill with an error is on the first field whose
\* present value cannot be coerced; the error names that field; the fields
\* before it keep what was written to them; the failing field (inside a
\* nested struct: the failing nested field) and the fields after it hold
\* their values of before the call; the mapping is never modified.
C4_FailFast ==
  [][ /\ configMap' = configMap
      /\ (fpc = "loop" /\ fpc' = "done" /\ ferr'.failed) =>
           LET f == fields[idx]
               n == FirstFailing(f.nested, configMap[LookupKey(f)].map)
           IN /\ idx' = idx /\ fields' = fields
              /\ idx = FirstFailing(fields, configMap)
              /\ Head(ferr'.path) = f.name
              /\ \A j \in 1..Len(fields) : j # idx => vals'[j] = vals[j]
              /\ \A j \in 1..(idx - 1) :
                   Written(fields[j], configMap) => vals'[j] # PriorValue(fields[j])
              /\ \A j \in (idx + 1)..Len(fields) : vals'[j] = PriorValue(fields[j])
              /\ IF f.kind # "struct"
                 THEN vals'[idx] = PriorValue(f) /\ Len(ferr'.path) = 1
                 ELSE /\ ferr'.path = <<f.name, f.nested[n].name>>
                      /\ \A j \in 1..(n - 1) :
                           Written(f.nested[j], configMap[LookupKey(f)].map)
                             => vals'[idx][j] # PriorValue(f.nested[j])
                      /\ \A j \in n..Len(f.nested) :
                           vals'[idx][j] = PriorValue(f.nested[j]) ]_vars

C4_Witness ==
  /\ fpc = "done"
  /\ ferr.failed
  /\ idx = 2
  /\ fields[2].kind \in IntKinds
  /\ Written(fields[1], configMap)
  /\ vals[1] # PriorValue(fields[1])

(* C7 *)

\* C7: a settable field whose lookup key is absent from the mapping (at top
\* level or inside a nested struct filled from a section) holds its value of
\* before the call; an error is never on a field whose key is absent; a
\* mapping with none of the record's keys gives success and no change.
C7_AbsentKeyLeavesField ==
  /\ \A i \in 1..Len(fields) :
       /\ (CanSet(fields[i]) /\ LookupKey(fields[i]) \notin DOMAIN configMap)
            => vals[i] = PriorValue(fields[i])
       /\ ( /\ Present(fields[i], configMap)
            /\ fields[i].kind = "struct"
            /\ configMap[LookupKey(fields[i])].kind = "section" )
            => \A j \in 1..Len(fields[i].nested) :
                 LookupKey(fields[i].nested[j])
                     \notin DOMAIN configMap[LookupKey(fields[i])].map
                   => vals[i][j] = PriorValue(fields[i].nested[j])
  /\ ferr.failed => LookupKey(fields[idx]) \in DOMAIN configMap
  /\ (\A i \in 1..Len(fields) : LookupKey(fields[i]) \notin DOMAIN configMap)
       => ~ferr.failed /\ vals = PriorValues(fields)

C7_Witness ==
  /\ fpc = "done"
  /\ ~ferr.failed
  /\ CanSet(fields[1])
  /\ fields[1].tag # EmptyStr
  /\ LookupKey(fields[1]) \notin DOMAIN configMap
  /\ fields[1].name \in DOMAIN configMap
  /\ vals = PriorValues(fields)

(* C10 *)

FieldOrders(n) ==
  {p \in [1..n -> 1..n] : \A i, j \in 1..n : i # j => p[i] # p[j]}

Permuted(fs, p) == [i \in 1..Len(fs) |-> fs[p[i]]]

\* the fill of the record type with its fields declared in the order p
FillPermuted(p) ==
  fillStruct(configMap, Permuted(fields, p), PriorValues(Permuted(fields, p)))

\* C10 as stated: declaring the fields in another order gives the same
\* success-or-error result and the same final value for every field.
C10_OrderIrrelevant ==
  fpc = "done" =>
    \A p \in FieldOrders(Len(fields)) :
      LET r == FillPermuted(p)
      IN /\ r.err.failed = ferr.failed
         /\ \A i \in 1..Len(fields) : r.vals[i] = vals[p[i]]

\* C10 amended: declaring the fields in another order gives the same
\* success-or-error result and, when the fill succeeds, the same final value
\* for every field.
C10_OrderIrrelevantOnSuccess ==
  fpc = "done" =>
    \A p \in FieldOrders(Len(fields)) :
      LET r == FillPermuted(p)
      IN /\ r.err.failed = ferr.failed
         /\ ~ferr.failed =>
              \A i \in 1..Len(fields) : r.vals[i] = vals[p[i]]

C10_Witness ==
  /\ fpc = "done"
  /\ ~ferr.failed
  /\ Len(fields) = 2
  /\ fields[1].kind # fields[2].kind
  /\ \A i \in 1..2 : Written(fields[i], configMap) /\ vals[i] # PriorValue(fields[i])

====
